---- MODULE Spec2Model ----
(***************************************************************************)
(* Model of the event translation service of main.go: the in-memory event  *)
(* table, the POST /event and GET /event handlers run concurrently by the  *)
(* HTTP server, and the keyword shielding functions.                       *)
(*                                                                         *)
(* A Go string is a sequence of one-character strings.                     *)
(***************************************************************************)
EXTENDS Integers, Sequences, FiniteSets, TLC

VARIABLES
    events,     \* main.go:36   the global event table, name -> EventInfo
    crashed,    \* the Go runtime ended the process (unsynchronised map access)
    pc,         \* per request: position of its handler
    req,        \* per request: the request received
    ev,         \* per request: the handler's locals
    resp,       \* per request: the response written
    calls,      \* per request: the Translator calls made so far (history)
    stored,     \* the requests that executed main.go:146, in order (history)
    fpc,        \* pipeline functions harness: position
    fin,        \* pipeline functions harness: inputs (text, keywords)
    fout,       \* pipeline functions harness: intermediate and final results
    cin,        \* repeated runs of the pipeline: the event they all run on
    cruns,      \* repeated runs of the pipeline: the result of each run so far
    tin,        \* translateText on its own: the target language and the reply
    tout        \* translateText on its own: what it returned

vars == <<events, crashed, pc, req, ev, resp, calls, stored, fpc, fin, fout, cin, cruns, tin, tout>>
srvVars == <<events, crashed, pc, req, ev, resp, calls, stored>>
fnVars == <<fpc, fin, fout>>
compVars == <<cin, cruns>>
trVars == <<tin, tout>>

----------------------------------------------------------------------------
(* Bounds of the model *)

\* number of requests the server receives
NReq == 2
\* number of pieces a harness text is built from
MaxPieces == 2
\* number of keywords in a harness keyword list
MaxKws == 2
\* number of times the pipeline is run on one event
MaxRuns == 2
\* largest keyword index whose placeholder is compared with the others
MaxIndex == 11

----------------------------------------------------------------------------
(* Strings *)

EmptyMap == [x \in {} |-> <<>>]

Range(s) == {s[i] : i \in DOMAIN s}

MapPut(m, k, v) == [x \in (DOMAIN m) \cup {k} |-> IF x = k THEN v ELSE m[x]]

\* all enumerations of a finite set: the orders a Go map range may take
Perms(S) ==
    {f \in [1..Cardinality(S) -> S] : \A i, j \in 1..Cardinality(S) : i # j => f[i] # f[j]}

Digit(d) == CASE d = 0 -> "0" [] d = 1 -> "1" [] d = 2 -> "2" [] d = 3 -> "3"
              [] d = 4 -> "4" [] d = 5 -> "5" [] d = 6 -> "6" [] d = 7 -> "7"
              [] d = 8 -> "8" [] d = 9 -> "9"

\* fmt's %d of a non-negative int
RECURSIVE Itoa(_)
Itoa(n) == IF n < 10 THEN <<Digit(n)>> ELSE Itoa(n \div 10) \o <<Digit(n % 10)>>

HasPrefixAt(s, i, old) ==
    /\ i + Len(old) - 1 <= Len(s)
    /\ SubSeq(s, i, i + Len(old) - 1) = old

\* strings.ReplaceAll with a non-empty old: leftmost non-overlapping matches
RECURSIVE ReplaceFrom(_, _, _, _)
ReplaceFrom(s, i, old, new) ==
    IF i > Len(s) THEN <<>>
    ELSE IF HasPrefixAt(s, i, old)
         THEN new \o ReplaceFrom(s, i + Len(old), old, new)
         ELSE <<s[i]>> \o ReplaceFrom(s, i + 1, old, new)

\* strings.ReplaceAll with old = "": new before every character and at the end
RECURSIVE InsertFrom(_, _, _)
InsertFrom(s, i, new) ==
    IF i > Len(s) THEN new ELSE new \o <<s[i]>> \o InsertFrom(s, i + 1, new)

ReplaceAll(s, old, new) ==
    IF old = <<>> THEN InsertFrom(s, 1, new) ELSE ReplaceFrom(s, 1, old, new)

Contains(s, sub) == \E i \in 1..(Len(s) + 1) : HasPrefixAt(s, i, sub)

----------------------------------------------------------------------------
(* The keyword shielding functions *)

\* the token written without its index
Placeholder_NoIndex(i) == <<"K", "W", "P", "L", "H">>

\* fmt.Sprintf("KW%dPLH", i)
Placeholder(i) == <<"K", "W">> \o Itoa(i) \o <<"P", "L", "H">>

\* the loop of replaceKeywordsWithPlaceholders from its k-th keyword on
\* (k counts from 1; Go's index is k - 1)
RECURSIVE ShieldFrom(_, _, _, _)
ShieldFrom(text, placeholderMap, keywords, k) ==
    IF k > Len(keywords) THEN [text |-> text, placeholderMap |-> placeholderMap]
    ELSE ShieldFrom(ReplaceAll(text, keywords[k], Placeholder(k - 1)),
                    MapPut(placeholderMap, Placeholder(k - 1), keywords[k]),
                    keywords, k + 1)

\* the keywords taken from the last to the first
RECURSIVE ShieldDownFrom(_, _, _, _)
ShieldDownFrom(text, placeholderMap, keywords, k) ==
    IF k < 1 THEN [text |-> text, placeholderMap |-> placeholderMap]
    ELSE ShieldDownFrom(ReplaceAll(text, keywords[k], Placeholder(k - 1)),
                        MapPut(placeholderMap, Placeholder(k - 1), keywords[k]),
                        keywords, k - 1)

replaceKeywords_LastFirst(text, keywords) ==
    ShieldDownFrom(text, EmptyMap, keywords, Len(keywords))

replaceKeywordsWithPlaceholders(text, keywords) ==
    ShieldFrom(text, EmptyMap, keywords, 1)

\* replacePlaceholdersWithKeywords, the map ranged over in the given order
RECURSIVE UnshieldFrom(_, _, _, _)
UnshieldFrom(text, placeholderMap, order, k) ==
    IF k > Len(order) THEN text
    ELSE UnshieldFrom(ReplaceAll(text, order[k], placeholderMap[order[k]]),
                      placeholderMap, order, k + 1)

\* the result taken from a variable that only the loop body assigns
replacePlaceholders_LoopResult(text, placeholderMap, order) ==
    IF Len(order) = 0 THEN <<>> ELSE UnshieldFrom(text, placeholderMap, order, 1)

replacePlaceholdersWithKeywords(text, placeholderMap, order) ==
    UnshieldFrom(text, placeholderMap, order, 1)

\* the orders in which Go may range over the placeholder map
MapOrders(m) == Perms(DOMAIN m)

----------------------------------------------------------------------------
(* The Translator: translateText and the replies of the HTTP service *)

\* the characters net/url refuses in a URL (ASCII control characters)
CtlChars == {"\n", "\t"}

\* http.NewRequest (main.go:53) fails when url+"&to="+targetLanguage does not
\* parse as a URL
NewRequestFails(targetLanguage) ==
    \E i \in DOMAIN targetLanguage : targetLanguage[i] \in CtlChars

\* a reply with no translation taken as an empty translation
translateText_EmptyOk(targetLanguage, reply) ==
    IF NewRequestFails(targetLanguage)
    THEN [text |-> <<>>, err |-> "error creating request"]
    ELSE IF ~reply.transport
    THEN [text |-> <<>>, err |-> "error making translation request"]
    ELSE IF ~reply.readable
    THEN [text |-> <<>>, err |-> "error reading response body"]
    ELSE IF reply.status # 200
    THEN [text |-> <<>>, err |-> "non-OK HTTP status"]
    ELSE IF ~reply.decodes
    THEN [text |-> <<>>, err |-> "error decoding response body"]
    ELSE IF Len(reply.batch) > 0 /\ Len(reply.batch[1]) > 0
    THEN [text |-> reply.batch[1][1], err |-> ""]
    ELSE [text |-> <<>>, err |-> ""]

\* translateText (main.go:46-87) for a target language, on the reply of the
\* service: the text returned, and err = "" for a nil error or else the cause
translateText(targetLanguage, reply) ==
    IF NewRequestFails(targetLanguage)
    THEN [text |-> <<>>, err |-> "error creating request"]
    ELSE IF ~reply.transport
    THEN [text |-> <<>>, err |-> "error making translation request"]
    ELSE IF ~reply.readable
    THEN [text |-> <<>>, err |-> "error reading response body"]
    ELSE IF reply.status # 200
    THEN [text |-> <<>>, err |-> "non-OK HTTP status"]
    ELSE IF ~reply.decodes
    THEN [text |-> <<>>, err |-> "error decoding response body"]
    ELSE IF Len(reply.batch) > 0 /\ Len(reply.batch[1]) > 0
    THEN [text |-> reply.batch[1][1], err |-> ""]
    ELSE [text |-> <<>>, err |-> "no translations found in the response"]

GoodReply(batch) ==
    [transport |-> TRUE, readable |-> TRUE, status |-> 200, decodes |-> TRUE, batch |-> batch]

\* the replies the service may give when asked to translate: failures of every
\* kind translateText tells apart, and batches whose first text is one of texts
HttpReplies(texts) ==
    {[GoodReply(<<>>) EXCEPT !.transport = FALSE],
     [GoodReply(<<>>) EXCEPT !.readable = FALSE],
     [GoodReply(<<>>) EXCEPT !.status = 401],
     [GoodReply(<<>>) EXCEPT !.decodes = FALSE],
     GoodReply(<<>>),
     GoodReply(<< <<>> >>)}
    \cup {GoodReply(<< <<t>> >>) : t \in texts}
    \cup {GoodReply(<< <<t, <<"z">> >>, << <<"z">> >> >>) : t \in texts}

\* a translation that keeps the text as it is
Same(s) == s
\* a translation that adds a word in front
Prefixed(s) == <<"b", " ">> \o s
\* a translation that rewrites the placeholder tokens (lower-cases their tail)
Mangled(s) == ReplaceAll(s, <<"P", "L", "H">>, <<"p", "l", "h">>)

\* a translation that changes every character outside the placeholder tokens
\* of phs and keeps those tokens
SwapChar(c) == CASE c = "a" -> "b" [] c = "b" -> "a" [] c = "W" -> "V" [] OTHER -> c

RECURSIVE SwapOutside(_, _, _)
SwapOutside(s, i, phs) ==
    IF i > Len(s) THEN <<>>
    ELSE IF \E p \in phs : HasPrefixAt(s, i, p)
         THEN LET p == CHOOSE q \in phs : HasPrefixAt(s, i, q)
              IN  p \o SwapOutside(s, i + Len(p), phs)
         ELSE <<SwapChar(s[i])>> \o SwapOutside(s, i + 1, phs)

Swapped(s, phs) == SwapOutside(s, 1, phs)

----------------------------------------------------------------------------
(* Events and requests *)

Reqs == 1..NReq

sF == <<"F">>
sG == <<"G">>
sLy == <<"L", "y">>
sFun == <<"F", "u", "n">>
fr == <<"f", "r">>
de == <<"d", "e">>

\* the zero value of EventInfo
EmptyEvent ==
    [Name |-> <<>>, Location |-> <<>>, Details |-> <<>>, LinkNames |-> EmptyMap,
     SponsoredMessage |-> <<>>, Languages |-> <<>>, Keywords |-> <<>>,
     Translations |-> EmptyMap]

BaseEvent ==
    [EmptyEvent EXCEPT !.Name = sF, !.Location = sLy, !.Details = sFun,
                       !.Languages = <<fr, de>>, !.Keywords = <<sF>>]

\* the request bodies clients send: wf is whether the body decodes as JSON
\* into an EventInfo, event is what it decodes to
Bodies ==
    {[wf |-> TRUE, event |-> BaseEvent],
     [wf |-> TRUE, event |-> [BaseEvent EXCEPT !.Languages = <<fr>>, !.Keywords = <<>>,
                                               !.SponsoredMessage = <<"S">>]],
     [wf |-> TRUE, event |-> [BaseEvent EXCEPT !.Name = sG, !.Languages = <<>>]],
     [wf |-> TRUE, event |-> [BaseEvent EXCEPT !.Name = <<>>, !.Languages = <<de>>]],
     [wf |-> TRUE, event |-> [BaseEvent EXCEPT !.Name = sG, !.Languages = <<de>>,
                                               !.Keywords = << <<>> >>]],
     [wf |-> TRUE, event |-> [BaseEvent EXCEPT !.Name = sG, !.Languages = <<fr>>,
                                               !.Keywords = <<sLy, sF>>,
                                               !.LinkNames = (<<"a">> :> <<"u">>) @@ (<<"b">> :> <<"v">>)]],
     [wf |-> FALSE, event |-> EmptyEvent]}

\* the names GET /event is asked for
QueryNames == {sF, sG}

\* the validate tags of EventInfo (main.go:15-21)
ValidShape(e) ==
    /\ e.Name # <<>>
    /\ e.Location # <<>>
    /\ e.Details # <<>>
    /\ \A k \in DOMAIN e.LinkNames : k # <<>> /\ e.LinkNames[k] # <<>>
    /\ e.Languages # <<>>
    /\ \A i \in DOMAIN e.Languages : e.Languages[i] # <<>>
    /\ \A i \in DOMAIN e.Keywords : e.Keywords[i] # <<>>

NoReq == [method |-> "none", body |-> [wf |-> FALSE, event |-> EmptyEvent], type |-> <<>>]
NoResp == [status |-> 0, kind |-> "none", event |-> EmptyEvent, lang |-> <<>>, cause |-> ""]
NoLocals == [event |-> EmptyEvent, preparedText |-> <<>>, placeholderMap |-> EmptyMap, i |-> 0]

----------------------------------------------------------------------------
(* The handlers *)

\* BindJSON as it would be with the struct tags enforced
BindJSON_Validating(b) == ~b.wf \/ ~ValidShape(b.event)

\* c.BindJSON (main.go:108): TRUE when it returns an error. gin's binding
\* validates the struct tags named "binding"; EventInfo carries "validate"
\* tags and validate.Struct is never called, so only decoding can fail.
BindJSON(b) == ~b.wf

\* the conflict check never finding the name
Exists_Never(table, name) == FALSE

\* main.go:113
Exists(table, name) == name \in DOMAIN table

\* the composed text with the space around it trimmed
compose_Trimmed(e, order) ==
    e.Name \o <<" ">>
    \o <<"L", "o", "c", "a", "t", "i", "o", "n", ":", " ">> \o e.Location \o <<" ">>
    \o <<"D", "e", "t", "a", "i", "l", "s", ":", " ">> \o e.Details
    \o (IF Len(order) = 0 /\ e.SponsoredMessage = <<>> THEN <<>> ELSE <<" ">>)
    \o (IF Len(order) = 0 THEN <<>>
        ELSE IF Len(order) = 1 THEN e.LinkNames[order[1]]
        ELSE e.LinkNames[order[1]] \o <<" ">> \o e.LinkNames[order[2]])
    \o (IF Len(order) = 0 \/ e.SponsoredMessage = <<>> THEN <<>> ELSE <<" ">>)
    \o e.SponsoredMessage

\* main.go:118-125, the links ranged over in the given order
RECURSIVE LinkText(_, _, _)
LinkText(links, order, k) ==
    IF k > Len(order) THEN <<>>
    ELSE links[order[k]] \o <<" ">> \o LinkText(links, order, k + 1)

sLocation == <<"L", "o", "c", "a", "t", "i", "o", "n", ":", " ">>
sDetails == <<"D", "e", "t", "a", "i", "l", "s", ":", " ">>

compose(e, order) ==
    e.Name \o <<" ">>
    \o sLocation \o e.Location \o <<" ">>
    \o sDetails \o e.Details \o <<" ">>
    \o LinkText(e.LinkNames, order, 1)
    \o e.SponsoredMessage

\* the translations map made anew in every iteration
AddTranslation_Fresh(translations, lang, finalText) == MapPut(EmptyMap, lang, finalText)

\* main.go:143
AddTranslation(translations, lang, finalText) == MapPut(translations, lang, finalText)

\* the event stored as it was before the loop filled its translations
StoreEvent_Untranslated(table, e) == MapPut(table, e.Name, [e EXCEPT !.Translations = EmptyMap])

\* the table made anew around the stored event
StoreEvent_Fresh(table, e) == (e.Name :> e)

\* main.go:146
StoreEvent(table, e) == MapPut(table, e.Name, e)

\* main.go:153
Lookup(table, name) ==
    IF name \in DOMAIN table
    THEN [NoResp EXCEPT !.status = 200, !.kind = "event", !.event = table[name]]
    ELSE [NoResp EXCEPT !.status = 404, !.kind = "error"]

\* main.go:106-111: a POST /event arrives and its body is bound
PostBind(r, b) ==
    /\ ~crashed
    /\ pc[r] = "idle"
    /\ req' = [req EXCEPT ![r] = [method |-> "POST", body |-> b, type |-> <<>>]]
    /\ IF BindJSON(b)
       THEN /\ resp' = [resp EXCEPT ![r] = [NoResp EXCEPT !.status = 400, !.kind = "error"]]
            /\ pc' = [pc EXCEPT ![r] = "done"]
            /\ ev' = ev
       ELSE /\ ev' = [ev EXCEPT ![r] = [NoLocals EXCEPT !.event = b.event]]
            /\ pc' = [pc EXCEPT ![r] = "check"]
            /\ resp' = resp
    /\ UNCHANGED <<events, crashed, calls, stored, fnVars, compVars, trVars>>

\* main.go:113-134: the conflict check, then the text is composed and shielded
PostCheck(r) ==
    /\ ~crashed
    /\ pc[r] = "check"
    /\ IF Exists(events, ev[r].event.Name)
       THEN /\ resp' = [resp EXCEPT ![r] = [NoResp EXCEPT !.status = 409, !.kind = "message"]]
            /\ pc' = [pc EXCEPT ![r] = "done"]
            /\ ev' = ev
       ELSE \E order \in Perms(DOMAIN ev[r].event.LinkNames) :
              LET sh == replaceKeywordsWithPlaceholders(compose(ev[r].event, order),
                                                        ev[r].event.Keywords)
              IN  /\ ev' = [ev EXCEPT ![r] =
                              [event |-> [ev[r].event EXCEPT !.Translations = EmptyMap],
                               preparedText |-> sh.text,
                               placeholderMap |-> sh.placeholderMap,
                               i |-> 1]]
                  /\ pc' = [pc EXCEPT ![r] =
                              IF Len(ev[r].event.Languages) = 0 THEN "store" ELSE "translate"]
                  /\ resp' = resp
    /\ UNCHANGED <<events, crashed, req, calls, stored, fnVars, compVars, trVars>>

\* the failure answered, and the event stored with the translations made so far
TranslateFailed_Partial(r, lang, cause) ==
    /\ resp' = [resp EXCEPT ![r] =
                  [NoResp EXCEPT !.status = 500, !.kind = "error", !.lang = lang, !.cause = cause]]
    /\ pc' = [pc EXCEPT ![r] = "done"]
    /\ events' = StoreEvent(events, ev[r].event)
    /\ UNCHANGED <<ev, stored>>

\* the failure swallowed, and the loop going on with the next language
TranslateFailed_Continue(r, lang, cause) ==
    /\ ev' = [ev EXCEPT ![r].i = @ + 1]
    /\ pc' = [pc EXCEPT ![r] =
                IF ev[r].i = Len(ev[r].event.Languages) THEN "store" ELSE "translate"]
    /\ UNCHANGED <<resp, events, stored>>

\* main.go:137-140: the Translator failed for lang
TranslateFailed(r, lang, cause) ==
    /\ resp' = [resp EXCEPT ![r] =
                  [NoResp EXCEPT !.status = 500, !.kind = "error", !.lang = lang, !.cause = cause]]
    /\ pc' = [pc EXCEPT ![r] = "done"]
    /\ UNCHANGED <<ev, events, stored>>

\* main.go:142-143: the translation of lang is unshielded and kept
TranslateSucceeded(r, lang, translatedText) ==
    /\ \E order \in MapOrders(ev[r].placeholderMap) :
         LET finalText == replacePlaceholdersWithKeywords(translatedText, ev[r].placeholderMap, order)
         IN  ev' = [ev EXCEPT ![r].event.Translations = AddTranslation(@, lang, finalText),
                              ![r].i = @ + 1]
    /\ pc' = [pc EXCEPT ![r] =
                IF ev[r].i = Len(ev[r].event.Languages) THEN "store" ELSE "translate"]
    /\ UNCHANGED <<resp, events, stored>>

\* the replies the service gives to the requests of the server: two kinds of
\* failure, and a translation
SrvReplies(s) ==
    {reply \in HttpReplies({Prefixed(s)}) :
        /\ reply.readable /\ reply.status = 200 /\ reply.decodes
        /\ Len(reply.batch) # 1}

\* main.go:135-144: one iteration of the loop over the languages
PostTranslate(r) ==
    /\ ~crashed
    /\ pc[r] = "translate"
    /\ LET lang == ev[r].event.Languages[ev[r].i]
       IN  \E reply \in SrvReplies(ev[r].preparedText) :
             LET res == translateText(lang, reply)
             IN  /\ calls' = [calls EXCEPT ![r] =
                                Append(@, [lang |-> lang, text |-> ev[r].preparedText,
                                           result |-> res])]
                 /\ IF res.err # ""
                    THEN TranslateFailed(r, lang, res.err)
                    ELSE TranslateSucceeded(r, lang, res.text)
    /\ UNCHANGED <<crashed, req, fnVars, compVars, trVars>>

\* main.go:146-147: the event is stored and returned
PostStore(r) ==
    /\ ~crashed
    /\ pc[r] = "store"
    /\ events' = StoreEvent(events, ev[r].event)
    /\ stored' = Append(stored, r)
    /\ resp' = [resp EXCEPT ![r] =
                  [NoResp EXCEPT !.status = 201, !.kind = "event", !.event = ev[r].event]]
    /\ pc' = [pc EXCEPT ![r] = "done"]
    /\ UNCHANGED <<crashed, req, ev, calls, fnVars, compVars, trVars>>

\* main.go:150-158: GET /event?type=name
GetEvent(r, name) ==
    /\ ~crashed
    /\ pc[r] = "idle"
    /\ req' = [req EXCEPT ![r] = [NoReq EXCEPT !.method = "GET", !.type = name]]
    /\ resp' = [resp EXCEPT ![r] = Lookup(events, name)]
    /\ pc' = [pc EXCEPT ![r] = "done"]
    /\ UNCHANGED <<events, crashed, ev, calls, stored, fnVars, compVars, trVars>>

\* main.go:36, 113, 146, 153: the table is a plain Go map used by concurrent
\* handlers without a lock. When a write (146) runs at the same time as another
\* access, the runtime may detect it and end the process ("fatal error:
\* concurrent map writes"); otherwise the accesses take effect one after the
\* other, which the interleaving of the actions above covers.
Crash(r1, r2) ==
    /\ ~crashed
    /\ r1 # r2
    /\ pc[r1] = "store"
    /\ pc[r2] \in {"idle", "check", "store"}
    /\ crashed' = TRUE
    /\ UNCHANGED <<events, pc, req, ev, resp, calls, stored, fnVars, compVars, trVars>>

NoCall == [lang |-> <<>>, reply |-> GoodReply(<<>>)]
NoResult == [text |-> <<>>, err |-> "not called"]

NoOut ==
    [prepared |-> <<>>, placeholderMap |-> EmptyMap, kind |-> "none",
     translated |-> <<>>, order |-> <<>>, final |-> <<>>]

SrvInit ==
    /\ events = EmptyMap
    /\ crashed = FALSE
    /\ pc = [r \in Reqs |-> "idle"]
    /\ req = [r \in Reqs |-> NoReq]
    /\ ev = [r \in Reqs |-> NoLocals]
    /\ resp = [r \in Reqs |-> NoResp]
    /\ calls = [r \in Reqs |-> <<>>]
    /\ stored = <<>>

Init ==
    /\ SrvInit
    /\ fpc = "off"
    /\ fin = [text |-> <<>>, keywords |-> <<>>]
    /\ fout = NoOut
    /\ cin = EmptyEvent
    /\ cruns = <<>>
    /\ tin = NoCall
    /\ tout = NoResult

Next ==
    \/ \E r \in Reqs : \E b \in Bodies : PostBind(r, b)
    \/ \E r \in Reqs : PostCheck(r)
    \/ \E r \in Reqs : PostTranslate(r)
    \/ \E r \in Reqs : PostStore(r)
    \/ \E r \in Reqs : \E name \in QueryNames : GetEvent(r, name)
    \/ \E r1, r2 \in Reqs : Crash(r1, r2)

Spec == Init /\ [][Next]_vars

----------------------------------------------------------------------------
(* The pipeline functions on their own: shield, translate, unshield applied  *)
(* to texts and keyword lists drawn from bounded sets                        *)

Pieces == {<<"a">>, <<"b">>, <<"W">>, Placeholder(0)}

RECURSIVE TextsOf(_)
TextsOf(n) ==
    IF n = 0 THEN {<<>>}
    ELSE TextsOf(n - 1) \cup {p \o t : p \in Pieces, t \in TextsOf(n - 1)}

Texts == TextsOf(MaxPieces)

\* non-empty keywords, as the validate tag of Keywords asks
KeywordPool == {<<"a">>, <<"b">>, <<"a", "b">>, <<"W">>, <<"H", "b">>}

KeywordLists == UNION {[1..n -> KeywordPool] : n \in 0..MaxKws}

Kinds == {"same", "swapped", "mangled"}

\* what the Translator returns for the shielded text s
Translated(kind, s, phs) ==
    CASE kind = "same" -> Same(s)
      [] kind = "swapped" -> Swapped(s, phs)
      [] kind = "mangled" -> Mangled(s)

FnInit ==
    /\ SrvInit
    /\ fpc = "start"
    /\ fin \in [text : Texts, keywords : KeywordLists]
    /\ fout = NoOut
    /\ cin = EmptyEvent
    /\ cruns = <<>>
    /\ tin = NoCall
    /\ tout = NoResult

\* main.go:127
FnShield ==
    /\ fpc = "start"
    /\ LET sh == replaceKeywordsWithPlaceholders(fin.text, fin.keywords)
       IN  fout' = [fout EXCEPT !.prepared = sh.text, !.placeholderMap = sh.placeholderMap]
    /\ fpc' = "shielded"
    /\ UNCHANGED <<fin, srvVars, compVars, trVars>>

\* main.go:136, a call that succeeds
FnTranslate ==
    /\ fpc = "shielded"
    /\ \E kind \in Kinds :
         fout' = [fout EXCEPT !.kind = kind,
                              !.translated = Translated(kind, fout.prepared,
                                                        DOMAIN fout.placeholderMap)]
    /\ fpc' = "translated"
    /\ UNCHANGED <<fin, srvVars, compVars, trVars>>

\* main.go:142
FnUnshield ==
    /\ fpc = "translated"
    /\ \E order \in MapOrders(fout.placeholderMap) :
         fout' = [fout EXCEPT !.order = order,
                              !.final = replacePlaceholdersWithKeywords(
                                            fout.translated, fout.placeholderMap, order)]
    /\ fpc' = "done"
    /\ UNCHANGED <<fin, srvVars, compVars, trVars>>

FnNext == FnShield \/ FnTranslate \/ FnUnshield

FnSpec == FnInit /\ [][FnNext]_vars

----------------------------------------------------------------------------
(* The pipeline run repeatedly on one event (main.go:118-144), with a       *)
(* Translator that is a function of the text                                *)

sFest == <<"F", "e", "s", "t">>
sLyon == <<"L", "y", "o", "n">>

LinkMaps ==
    {EmptyMap,
     (<<"a">> :> <<"u">>),
     (<<"a">> :> <<"u">>) @@ (<<"b">> :> <<"v">>)}

CompEvents ==
    {[EmptyEvent EXCEPT !.Name = n, !.Location = l, !.Details = sFun, !.LinkNames = lk,
                        !.SponsoredMessage = sp, !.Keywords = kw, !.Languages = <<fr>>] :
        n \in {sF, sFest}, l \in {sLy, sLyon}, lk \in LinkMaps,
        sp \in {<<>>, <<"S">>}, kw \in {<<>>, <<sF>>}}

CompInit ==
    /\ SrvInit
    /\ fpc = "off"
    /\ fin = [text |-> <<>>, keywords |-> <<>>]
    /\ fout = NoOut
    /\ cin \in CompEvents
    /\ cruns = <<>>
    /\ tin = NoCall
    /\ tout = NoResult

\* main.go:118-144 with every Translator call succeeding
CompRun ==
    /\ Len(cruns) < MaxRuns
    /\ \E order \in Perms(DOMAIN cin.LinkNames) :
         LET text == compose(cin, order)
             sh == replaceKeywordsWithPlaceholders(text, cin.Keywords)
         IN  \E uorder \in MapOrders(sh.placeholderMap) :
               cruns' = Append(cruns,
                   [composed |-> text,
                    translations |->
                        [l \in Range(cin.Languages) |->
                            replacePlaceholdersWithKeywords(Prefixed(sh.text),
                                                            sh.placeholderMap, uorder)]])
    /\ UNCHANGED <<cin, srvVars, fnVars, trVars>>

CompNext == CompRun

CompSpec == CompInit /\ [][CompNext]_vars

----------------------------------------------------------------------------
(* translateText on its own, for every kind of reply *)

Batches ==
    UNION {{<< <<t>> >>, << <<t, <<"z">> >>, << <<"z">> >> >>, << <<>>, <<t>> >>} :
             t \in {<<>>, <<"x">>}}
    \cup {<<>>, << <<>> >>}

AllReplies ==
    [transport : BOOLEAN, readable : BOOLEAN, status : {200, 401, 503},
     decodes : BOOLEAN, batch : Batches]

TrInit ==
    /\ SrvInit
    /\ fpc = "off"
    /\ fin = [text |-> <<>>, keywords |-> <<>>]
    /\ fout = NoOut
    /\ cin = EmptyEvent
    /\ cruns = <<>>
    /\ tin \in [lang : {fr, <<"f", "\n">>}, reply : AllReplies]
    /\ tout = NoResult

\* main.go:136
TrCall ==
    /\ tout = NoResult
    /\ tout' = translateText(tin.lang, tin.reply)
    /\ UNCHANGED <<tin, srvVars, fnVars, cin, cruns>>

TrNext == TrCall

TrSpec == TrInit /\ [][TrNext]_vars

----------------------------------------------------------------------------
(* Properties of the server *)

IsPost(r) == req[r].method = "POST" /\ req[r].body.wf
NameOf(r) == req[r].body.event.Name
LangsOf(r) == req[r].body.event.Languages

\* C1: of two POST /event requests for the same name that was not stored
\* before, at most one is answered 201, and the entry stored under the name
\* is the event of the request answered 201.
C1_OneCreation ==
    \A r1, r2 \in Reqs :
        (r1 # r2 /\ IsPost(r1) /\ IsPost(r2) /\ NameOf(r1) = NameOf(r2)
           /\ resp[r1].status = 201)
        => /\ resp[r2].status # 201
           /\ events[NameOf(r1)] = resp[r1].event

\* C2: when the Translator fails for a language, the request is answered 500
\* naming that language, which is the first to fail, the response carries no
\* translations, and the event table is left as it was.
C2_FailureAborts ==
    [][\A r \in Reqs :
          (resp[r].status # 500 /\ resp'[r].status = 500)
          => LET n == Len(calls'[r])
             IN  /\ n >= 1
                 /\ calls'[r][n].result.err # ""
                 /\ \A j \in 1..(n - 1) : calls'[r][j].result.err = ""
                 /\ \A j \in 1..n : calls'[r][j].lang = LangsOf(r)[j]
                 /\ resp'[r].lang = LangsOf(r)[n]
                 /\ resp'[r].kind = "error"
                 /\ resp'[r].event.Translations = EmptyMap
                 /\ pc'[r] = "done"
                 /\ events' = events]_vars

C2_Witness ==
    \E r \in Reqs : resp[r].status = 500 /\ Len(calls[r]) = 2 /\ resp[r].lang = de

\* C3: every event in the table has a translation for exactly the languages
\* of its language list.
C3_TranslationsComplete ==
    \A n \in DOMAIN events : DOMAIN events[n].Translations = Range(events[n].Languages)

C3_Witness ==
    \E n \in DOMAIN events : DOMAIN events[n].Translations = {fr, de}

\* C4: a POST /event whose name is a key of the table at its conflict check
\* is answered 409 there, the table is unchanged, and the request makes no
\* Translator call and never stores.
C4_ConflictRejected ==
    /\ [](\A r \in Reqs :
            resp[r].status = 409 => calls[r] = <<>> /\ pc[r] = "done" /\ ev[r].i = 0)
    /\ [][\A r \in Reqs :
            (pc[r] = "check" /\ pc'[r] # "check" /\ ev[r].event.Name \in DOMAIN events)
            => /\ resp'[r].status = 409
               /\ pc'[r] = "done"
               /\ calls'[r] = <<>>
               /\ events' = events]_vars

C4_Witness ==
    \E r \in Reqs : resp[r].status = 409 /\ NameOf(r) \in DOMAIN events

\* C5: a POST /event whose body violates the EventDetails shape is answered
\* 400 at once: it never reaches the conflict check, the shield or the
\* Translator.
C5_InvalidRejected ==
    \A r \in Reqs :
        (IsPost(r) /\ ~ValidShape(req[r].body.event))
        => pc[r] = "done" /\ resp[r].status = 400 /\ calls[r] = <<>>

\* the last request answered 201 for the name n
Creators(n) == {i \in DOMAIN stored : NameOf(stored[i]) = n}
LastCreator(n) == stored[CHOOSE i \in Creators(n) : \A j \in Creators(n) : j <= i]

\* C6: GET /event?type=n is answered 404 when no POST for n was answered 201,
\* and otherwise 200 with the event the (last) successful POST for n stored
\* and returned, with a translation for every language of that POST; the
\* table is unchanged by GET.
C6_GetReturnsStored ==
    [][\A r \in Reqs :
          (pc[r] = "idle" /\ pc'[r] = "done" /\ req'[r].method = "GET")
          => LET n == req'[r].type
             IN  /\ events' = events
                 /\ IF \A q \in Reqs : ~(IsPost(q) /\ NameOf(q) = n /\ resp[q].status = 201)
                    THEN resp'[r].status = 404
                    ELSE /\ resp'[r].status = 200
                         /\ resp'[r].event = resp[LastCreator(n)].event
                         /\ DOMAIN resp'[r].event.Translations = Range(LangsOf(LastCreator(n)))
                         /\ resp'[r].event.Name = n]_vars

C6_Witness ==
    \E r \in Reqs :
        /\ req[r].method = "GET" /\ resp[r].status = 200
        /\ DOMAIN resp[r].event.Translations = {fr, de}

C11_CallsInOrder ==
    \A r \in Reqs :
        LET n == Len(calls[r])
        IN  /\ n <= Len(LangsOf(r))
            /\ \A j \in 1..n :
                  /\ calls[r][j].lang = LangsOf(r)[j]
                  /\ calls[r][j].text = ev[r].preparedText
            /\ n >= 1 =>
                  \E order \in Perms(DOMAIN req[r].body.event.LinkNames) :
                      ev[r].preparedText =
                          replaceKeywordsWithPlaceholders(
                              compose(req[r].body.event, order),
                              req[r].body.event.Keywords).text
            /\ \A j \in 1..(n - 1) : calls[r][j].result.err = ""
            /\ (n >= 1 /\ calls[r][n].result.err # "") => resp[r].status = 500
            /\ resp[r].status = 201 =>
                  /\ n = Len(LangsOf(r))
                  /\ \A j \in 1..n : calls[r][j].result.err = ""
            /\ pc[r] = "translate" => n = ev[r].i - 1

C11_Witness ==
    \E r \in Reqs :
        /\ resp[r].status = 201 /\ Len(calls[r]) = 2
        /\ calls[r][1].lang = fr /\ calls[r][2].lang = de
        /\ calls[r][1].text = calls[r][2].text
        /\ Contains(calls[r][1].text, Placeholder(0))

\* C18: the table only grows: no step removes a key, every entry is stored
\* under its own name, a step that answers anything but 201 leaves the table
\* as it was, and the table changes only in the step that answers 201, by
\* the entry of that request.
C18_TableOnlyGrows ==
    /\ [](\A n \in DOMAIN events : events[n].Name = n)
    /\ [][/\ DOMAIN events \subseteq DOMAIN events'
          /\ \A r \in Reqs :
                (resp[r].status = 0 /\ resp'[r].status \notin {0, 201}) => events' = events
          /\ events' # events =>
                \E r \in Reqs :
                    /\ resp[r].status = 0 /\ resp'[r].status = 201
                    /\ events'[NameOf(r)] = resp'[r].event
                    /\ \A n \in DOMAIN events : n # NameOf(r) => events'[n] = events[n]]_vars

C18_Witness ==
    /\ DOMAIN events = {sF, sG}
    /\ \E r \in Reqs : resp[r].status = 201 /\ NameOf(r) = sG

\* C19: every POST /event makes at most len(languages) Translator calls and
\* ends with one of 201, 400, 409, 500: until it has answered it can always
\* take its next step; 201 comes only after every call succeeded and the
\* event was written.
C19_PostTerminates ==
    \A r \in Reqs :
        req[r].method = "POST"
        => /\ Len(calls[r]) <= Len(LangsOf(r))
           /\ pc[r] = "done" => resp[r].status \in {201, 400, 409, 500}
           /\ pc[r] # "done" =>
                 /\ resp[r].status = 0
                 /\ ENABLED (PostCheck(r) \/ PostTranslate(r) \/ PostStore(r))
           /\ resp[r].status = 201 =>
                 /\ Len(calls[r]) = Len(LangsOf(r))
                 /\ \A j \in DOMAIN calls[r] : calls[r][j].result.err = ""
                 /\ \E i \in DOMAIN stored : stored[i] = r
                 /\ NameOf(r) \in DOMAIN events

----------------------------------------------------------------------------
(* Properties of the pipeline functions *)

\* every placeholder token of the text replaced by its keyword, at once
RECURSIVE SubstFrom(_, _, _)
SubstFrom(s, i, m) ==
    IF i > Len(s) THEN <<>>
    ELSE IF \E p \in DOMAIN m : HasPrefixAt(s, i, p)
         THEN LET p == CHOOSE q \in DOMAIN m : HasPrefixAt(s, i, q)
              IN  m[p] \o SubstFrom(s, i + Len(p), m)
         ELSE <<s[i]>> \o SubstFrom(s, i + 1, m)

\* C7: when the Translator leaves the placeholder tokens intact, the final
\* text has the keyword wherever the translated text had its placeholder, and
\* no placeholder token of the mapping is left in it.
C7_KeywordsRestored ==
    (fpc = "done" /\ fout.kind \in {"same", "swapped"})
    => /\ fout.final = SubstFrom(fout.translated, 1, fout.placeholderMap)
       /\ \A p \in DOMAIN fout.placeholderMap : ~Contains(fout.final, p)

\* shield with the k-th placeholder taken as one mark no keyword can match
Mark(k) == CASE k = 0 -> "#0" [] k = 1 -> "#1" [] k = 2 -> "#2" [] k = 3 -> "#3"
             [] k = 4 -> "#4" [] k = 5 -> "#5" [] k = 6 -> "#6" [] k = 7 -> "#7"
             [] k = 8 -> "#8" [] k = 9 -> "#9"

RECURSIVE MarkFrom(_, _, _)
MarkFrom(text, keywords, k) ==
    IF k > Len(keywords) THEN text
    ELSE MarkFrom(ReplaceAll(text, keywords[k], <<Mark(k - 1)>>), keywords, k + 1)

RECURSIVE UnmarkFrom(_, _, _)
UnmarkFrom(text, n, k) ==
    IF k > n THEN text
    ELSE UnmarkFrom(ReplaceAll(text, <<Mark(k - 1)>>, Placeholder(k - 1)), n, k + 1)

\* no keyword matches across or inside a placeholder put in by an earlier one
NoCrossing(text, keywords) ==
    UnmarkFrom(MarkFrom(text, keywords, 1), Len(keywords), 1)
        = replaceKeywordsWithPlaceholders(text, keywords).text

\* C8: unshield after shield gives the text back, when no keyword is a
\* substring that crosses a placeholder boundary.
C8_RoundTrip ==
    (fpc = "done" /\ fout.kind = "same" /\ NoCrossing(fin.text, fin.keywords))
    => fout.final = fin.text

\* C9: with no keywords, shield returns the text unchanged and an empty
\* mapping, and unshield returns what the Translator returned.
C9_NoKeywordsIdentity ==
    (fin.keywords = <<>> /\ fpc # "start")
    => /\ fout.prepared = fin.text
       /\ fout.placeholderMap = EmptyMap
       /\ fpc = "done" => fout.final = fout.translated

C9_Witness ==
    /\ fpc = "done" /\ fin.keywords = <<>>
    /\ fout.kind = "swapped"
    /\ Contains(fin.text, Placeholder(0))
    /\ fout.final = fout.translated /\ fout.final # fin.text

\* every leftmost, non-overlapping occurrence of old in s replaced by new
RECURSIVE ReplaceEvery(_, _, _)
ReplaceEvery(s, old, new) ==
    LET occ == {i \in 1..Len(s) : HasPrefixAt(s, i, old)}
    IN  IF occ = {} THEN s
        ELSE LET first == CHOOSE i \in occ : \A j \in occ : i <= j
             IN  SubSeq(s, 1, first - 1) \o new
                 \o ReplaceEvery(SubSeq(s, first + Len(old), Len(s)), old, new)

\* the text after the first n keywords were taken, each on the result of the
\* ones before it
RECURSIVE LeftFold(_, _, _)
LeftFold(text, keywords, n) ==
    IF n = 0 THEN text
    ELSE ReplaceEvery(LeftFold(text, keywords, n - 1), keywords[n],
                      <<"K", "W", Digit(n - 1), "P", "L", "H">>)

\* C14: shield is a left fold over the keywords in input order, each step
\* replacing every non-overlapping occurrence of its keyword in the text the
\* steps before it left; so of two overlapping keywords the one listed first
\* takes the region and the later one does not match there.
C14_ShieldLeftFold ==
    fpc = "shielded"
    => /\ fout.prepared = LeftFold(fin.text, fin.keywords, Len(fin.keywords))
       /\ (fin.text = <<"a", "b">> /\ fin.keywords = << <<"a">>, <<"a", "b">> >>)
          => fout.prepared = <<"K", "W", "0", "P", "L", "H", "b">>
       /\ (fin.text = <<"a", "b">> /\ fin.keywords = << <<"a", "b">>, <<"a">> >>)
          => fout.prepared = <<"K", "W", "0", "P", "L", "H">>

C14_Witness ==
    /\ fpc = "shielded"
    /\ fin.text = <<"a", "b">> /\ fin.keywords = << <<"a">>, <<"a", "b">> >>
    /\ fout.prepared = <<"K", "W", "0", "P", "L", "H", "b">>
    /\ ~Contains(fout.prepared, Placeholder(1))

\* placeholders of different indices are distinct, none a substring of another
PlaceholdersDistinct ==
    \A i, j \in 0..MaxIndex :
        i # j => /\ Placeholder(i) # Placeholder(j)
                 /\ ~Contains(Placeholder(i), Placeholder(j))

\* what C15 says of the mapping, apart from its keywords being distinct
MappingByIndex ==
    LET m == fout.placeholderMap
        n == Len(fin.keywords)
    IN  /\ Cardinality(DOMAIN m) = n
        /\ DOMAIN m = {<<"K", "W", Digit(i), "P", "L", "H">> : i \in 0..(n - 1)}
        /\ \A i \in 0..(n - 1) : m[<<"K", "W", Digit(i), "P", "L", "H">>] = fin.keywords[i + 1]
        /\ PlaceholdersDistinct

\* C15 (as claimed): the mapping has one placeholder per keyword, made from
\* the keyword's index alone, the placeholders are distinct, none a substring
\* of another, and no two placeholders map to the same keyword.
C15_OneToOne ==
    fpc = "shielded"
    => /\ MappingByIndex
       /\ \A p, q \in DOMAIN fout.placeholderMap :
             p # q => fout.placeholderMap[p] # fout.placeholderMap[q]

\* C15 (amended): the mapping has one placeholder per keyword, made from the
\* keyword's index alone, the placeholders are distinct, none a substring of
\* another; two placeholders map to the same keyword exactly when that
\* keyword is supplied twice.
C15_OneToOneIfDistinct ==
    fpc = "shielded"
    => /\ MappingByIndex
       /\ \A i, j \in 1..Len(fin.keywords) :
             (i # j /\ fin.keywords[i] # fin.keywords[j])
             => fout.placeholderMap[Placeholder(i - 1)] # fout.placeholderMap[Placeholder(j - 1)]
       /\ \A i, j \in 1..Len(fin.keywords) :
             fin.keywords[i] = fin.keywords[j]
             => fout.placeholderMap[Placeholder(i - 1)] = fout.placeholderMap[Placeholder(j - 1)]

C15_Witness ==
    /\ fpc = "shielded"
    /\ fin.keywords = << <<"a">>, <<"a">> >>
    /\ Cardinality(DOMAIN fout.placeholderMap) = 2
    /\ fout.placeholderMap[Placeholder(0)] = fout.placeholderMap[Placeholder(1)]

\* C16: the final text is the same for every order in which the placeholder
\* mapping is ranged over.
C16_OrderIrrelevant ==
    fpc \in {"translated", "done"}
    => \A o1, o2 \in MapOrders(fout.placeholderMap) :
          replacePlaceholdersWithKeywords(fout.translated, fout.placeholderMap, o1)
            = replacePlaceholdersWithKeywords(fout.translated, fout.placeholderMap, o2)

----------------------------------------------------------------------------
(* Properties of the composed text and of repeated runs *)

RECURSIVE ValuesSpaced(_, _)
ValuesSpaced(links, order) ==
    IF order = <<>> THEN <<>>
    ELSE ValuesSpaced(links, SubSeq(order, 1, Len(order) - 1))
         \o links[order[Len(order)]] \o <<" ">>

\* C12: the composed text is the name, a space, "Location: " and the
\* location, a space, "Details: " and the details, a space, every link value
\* followed by a space, and the sponsor message; with no links and no sponsor
\* message it ends with exactly one space, and Fest, Lyon, Fun give
\* "Fest Location: Lyon Details: Fun ".
C12_ComposedText ==
    \A i \in DOMAIN cruns :
        LET t == cruns[i].composed
        IN  /\ \E order \in Perms(DOMAIN cin.LinkNames) :
                 t = cin.Name
                     \o <<" ", "L", "o", "c", "a", "t", "i", "o", "n", ":", " ">>
                     \o cin.Location
                     \o <<" ", "D", "e", "t", "a", "i", "l", "s", ":", " ">>
                     \o cin.Details \o <<" ">>
                     \o ValuesSpaced(cin.LinkNames, order)
                     \o cin.SponsoredMessage
            /\ (DOMAIN cin.LinkNames = {} /\ cin.SponsoredMessage = <<>>)
               => t[Len(t)] = " " /\ t[Len(t) - 1] # " "
            /\ (cin.Name = sFest /\ cin.Location = sLyon /\ cin.Details = sFun
                  /\ DOMAIN cin.LinkNames = {} /\ cin.SponsoredMessage = <<>>)
               => t = <<"F", "e", "s", "t", " ",
                        "L", "o", "c", "a", "t", "i", "o", "n", ":", " ",
                        "L", "y", "o", "n", " ",
                        "D", "e", "t", "a", "i", "l", "s", ":", " ",
                        "F", "u", "n", " ">>

C12_Witness ==
    /\ Len(cruns) >= 1
    /\ cin.Name = sFest /\ cin.Location = sLyon /\ DOMAIN cin.LinkNames = {}
    /\ cin.SponsoredMessage = <<>>
    /\ Len(cruns[1].composed) = 33

\* C13: two runs of the pipeline on the same event, with the same
\* deterministic Translator, give the same composed text and the same
\* translations.
C13_RunsAgree ==
    \A i, j \in DOMAIN cruns : cruns[i] = cruns[j]

----------------------------------------------------------------------------
(* Properties of translateText *)

\* the cases C17 lists: transport failure (sending the request or reading the
\* reply), a status other than 200, a body that does not decode, an empty
\* batch, a first batch item with no translation
ListedFailure(reply) ==
    \/ ~reply.transport
    \/ ~reply.readable
    \/ reply.status # 200
    \/ ~reply.decodes
    \/ Len(reply.batch) = 0
    \/ Len(reply.batch[1]) = 0

\* C17 (as claimed): translateText returns an error and an empty string in
\* the listed cases, and in every other case the first translation of the
\* first batch item, without error.
C17_ErrorCases ==
    tout # NoResult
    => IF ListedFailure(tin.reply)
       THEN tout.err # "" /\ tout.text = <<>>
       ELSE tout.err = "" /\ tout.text = tin.reply.batch[1][1]

\* C17 (amended): the same, with one more failure case: the request cannot be
\* built, because the target language does not give a valid URL.
C17_ErrorCasesAndRequest ==
    tout # NoResult
    => IF ListedFailure(tin.reply) \/ (\E i \in DOMAIN tin.lang : tin.lang[i] = "\n")
       THEN tout.err # "" /\ tout.text = <<>>
       ELSE tout.err = "" /\ tout.text = tin.reply.batch[1][1]

C17_Witness ==
    /\ tout # NoResult
    /\ tin.lang = fr
    /\ tin.reply.transport /\ tin.reply.readable /\ tin.reply.status = 200
    /\ tin.reply.decodes /\ tin.reply.batch = << <<>>, << <<"x">> >> >>
    /\ tout.err = "no translations found in the response"

====
